---- MODULE Spec2Model ----
(***************************************************************************)
(* Model of src/programs/native_token_lending.rs: the decode-and-flatten   *)
(* pipeline process_native_token_lending_instruction.                      *)
(*                                                                         *)
(* A call receives (transaction_hash, instruction_index, data, timestamp,  *)
(* parent_index), unpacks data with LendingInstruction::unpack and either  *)
(* projects the decoded variant to an InstructionSet or logs one error and *)
(* returns None.                                                           *)
(*                                                                         *)
(* Two identifiers the body reads are bound by no parameter and no local:  *)
(* `instruction` (every InstructionFunction is built from its fields) and  *)
(* `collateral_amount` in the RefreshObligation arm.  They are modelled as *)
(* the variables instruction and collateral_amount: arbitrary values       *)
(* chosen in Init, which no step of the function assigns.                  *)
(*                                                                         *)
(* Numbers: a u64 is kept as its 8 little-endian wire bytes (it does not   *)
(* fit the model checker's integers), a Pubkey as its 32 bytes; to_string  *)
(* is computed on digit sequences.                                         *)
(***************************************************************************)
EXTENDS Integers, Sequences, FiniteSets, TLC

VARIABLES
    instruction,        \* value of the free identifier `instruction`
    collateral_amount,  \* value of the free identifier `collateral_amount`
    task,               \* task id -> the call it is running and its position
    log,                \* reports emitted through tracing's error!
    prev,               \* the last call that returned (inputs and result)
    calls               \* number of calls started

vars == <<instruction, collateral_amount, task, log, prev, calls>>

\* Bounds of the model.
NumTasks == 2
MaxCalls == 2

-----------------------------------------------------------------------------
\* Option and Result values.

None == <<>>
Some(x) == <<x>>
Ok(v) == [ok |-> TRUE, value |-> v]
Err(e) == [ok |-> FALSE, value |-> e]

-----------------------------------------------------------------------------
\* to_string of the numeric and key types, on digit sequences.

DecimalChars == <<"0", "1", "2", "3", "4", "5", "6", "7", "8", "9">>

Base58Chars ==
    <<"1", "2", "3", "4", "5", "6", "7", "8", "9",
      "A", "B", "C", "D", "E", "F", "G", "H", "J", "K", "L", "M", "N", "P", "Q",
      "R", "S", "T", "U", "V", "W", "X", "Y", "Z",
      "a", "b", "c", "d", "e", "f", "g", "h", "i", "j", "k", "m", "n", "o", "p",
      "q", "r", "s", "t", "u", "v", "w", "x", "y", "z">>

RECURSIVE Reverse(_)
Reverse(s) == IF s = <<>> THEN <<>> ELSE Append(Reverse(Tail(s)), Head(s))

\* digits * m + c, on little-endian digits of the given base (<<>> is zero).
RECURSIVE MulAdd(_, _, _, _)
MulAdd(digits, m, c, base) ==
    IF digits = <<>>
    THEN IF c = 0 THEN <<>> ELSE <<c % base>> \o MulAdd(<<>>, m, c \div base, base)
    ELSE LET v == Head(digits) * m + c
         IN  <<v % base>> \o MulAdd(Tail(digits), m, v \div base, base)

\* The little-endian digits, in the given base, of a big-endian byte string.
RECURSIVE ToBase(_, _, _)
ToBase(bytes, acc, base) ==
    IF bytes = <<>> THEN acc
    ELSE ToBase(Tail(bytes), MulAdd(acc, 256, Head(bytes), base), base)

\* Most significant digit first.
RECURSIVE Render(_, _)
Render(digits, chars) ==
    IF digits = <<>> THEN ""
    ELSE Render(Tail(digits), chars) \o chars[Head(digits) + 1]

RECURSIVE LeadingZeros(_)
LeadingZeros(bytes) ==
    IF bytes = <<>> \/ Head(bytes) # 0 THEN 0 ELSE 1 + LeadingZeros(Tail(bytes))

RECURSIVE Repeat(_, _)
Repeat(c, n) == IF n = 0 THEN "" ELSE c \o Repeat(c, n - 1)

\* The amount narrowed to 32 bits before it is rendered.
u64_to_string_low32(le) ==
    LET digits == ToBase(Reverse(SubSeq(le, 1, 4)), <<>>, 10)
    IN  IF digits = <<>> THEN "0" ELSE Render(digits, DecimalChars)

\* u64::to_string, of the 8 little-endian bytes of the value.
u64_to_string(le) ==
    LET digits == ToBase(Reverse(le), <<>>, 10)
    IN  IF digits = <<>> THEN "0" ELSE Render(digits, DecimalChars)

\* u8::to_string.
u8_to_string(n) ==
    LET digits == ToBase(<<n>>, <<>>, 10)
    IN  IF digits = <<>> THEN "0" ELSE Render(digits, DecimalChars)

\* Pubkey::to_string: base58 of the 32 bytes, one "1" per leading zero byte.
pubkey_to_string(bytes) ==
    Repeat("1", LeadingZeros(bytes)) \o Render(ToBase(bytes, <<>>, 58), Base58Chars)

-----------------------------------------------------------------------------
\* LendingInstruction::unpack: a tag byte, then the variant's fields.

Take(s, n) == SubSeq(s, 1, n)

UnpackError == Err("InstructionUnpackError")

unpack_u64_variant(tag, field, rest) ==
    IF Len(rest) < 8 THEN UnpackError
    ELSE Ok([tag |-> tag] @@ (field :> Take(rest, 8)))

unpack_init_reserve(rest) ==
    IF Len(rest) < 32 THEN UnpackError
    ELSE Ok([tag |-> "InitReserve",
             liquidity_amount |-> Take(rest, 8),
             config |->
                [optimal_utilization_rate |-> rest[9],
                 loan_to_value_ratio |-> rest[10],
                 liquidation_bonus |-> rest[11],
                 liquidation_threshold |-> rest[12],
                 min_borrow_rate |-> rest[13],
                 optimal_borrow_rate |-> rest[14],
                 max_borrow_rate |-> rest[15],
                 fees |->
                    [borrow_fee_wad |-> SubSeq(rest, 16, 23),
                     flash_loan_fee_wad |-> SubSeq(rest, 24, 31),
                     host_fee_percentage |-> rest[32]]]])

unpack(data) ==
    IF data = <<>> THEN UnpackError
    ELSE LET tag == Head(data)
             rest == Tail(data)
         IN  CASE tag = 0 ->
                    IF Len(rest) < 64 THEN UnpackError
                    ELSE Ok([tag |-> "InitLendingMarket",
                             owner |-> Take(rest, 32),
                             quote_currency |-> SubSeq(rest, 33, 64)])
               [] tag = 1 ->
                    IF Len(rest) < 32 THEN UnpackError
                    ELSE Ok([tag |-> "SetLendingMarketOwner",
                             new_owner |-> Take(rest, 32)])
               [] tag = 2 -> unpack_init_reserve(rest)
               [] tag = 3 -> Ok([tag |-> "RefreshReserve"])
               [] tag = 4 ->
                    unpack_u64_variant("DepositReserveLiquidity", "liquidity_amount", rest)
               [] tag = 5 ->
                    unpack_u64_variant("RedeemReserveCollateral", "collateral_amount", rest)
               [] tag = 6 -> Ok([tag |-> "InitObligation"])
               [] tag = 7 -> Ok([tag |-> "RefreshObligation"])
               [] tag = 8 ->
                    unpack_u64_variant("DepositObligationCollateral", "collateral_amount", rest)
               [] tag = 9 ->
                    unpack_u64_variant("WithdrawObligationCollateral", "collateral_amount", rest)
               [] tag = 10 ->
                    unpack_u64_variant("BorrowObligationLiquidity", "liquidity_amount", rest)
               [] tag = 11 ->
                    unpack_u64_variant("RepayObligationLiquidity", "liquidity_amount", rest)
               [] tag = 12 ->
                    unpack_u64_variant("LiquidateObligation", "liquidity_amount", rest)
               [] tag = 13 -> unpack_u64_variant("FlashLoan", "amount", rest)
               [] OTHER -> UnpackError

-----------------------------------------------------------------------------
\* The projector: one arm of the match per variant.

\* InstructionFunction { .. }: every field but function_name is read from
\* the identifier `instruction`.
InstructionFunction(name) ==
    [tx_instruction_id |-> instruction.tx_instruction_id,
     transaction_hash |-> instruction.transaction_hash,
     parent_index |-> instruction.parent_index,
     program |-> instruction.program,
     function_name |-> name,
     timestamp |-> instruction.timestamp]

\* The records stamped with a running count instead of the block's time.
InstructionProperty_stamped(inp, key, value, parent_key) ==
    [tx_instruction_id |-> inp.instruction_index,
     transaction_hash |-> inp.transaction_hash,
     parent_index |-> inp.parent_index,
     key |-> key,
     value |-> value,
     parent_key |-> parent_key,
     timestamp |-> calls]

\* InstructionProperty { .. }: the context fields are the call's parameters.
InstructionProperty(inp, key, value, parent_key) ==
    [tx_instruction_id |-> inp.instruction_index,
     transaction_hash |-> inp.transaction_hash,
     parent_index |-> inp.parent_index,
     key |-> key,
     value |-> value,
     parent_key |-> parent_key,
     timestamp |-> inp.timestamp]

\* The RefreshObligation arm pasted from RefreshReserve, name included.
function_name_pasted(ins) ==
    CASE ins.tag = "InitLendingMarket" -> "init-lending-market"
      [] ins.tag = "SetLendingMarketOwner" -> "set-lending-market-owner"
      [] ins.tag = "InitReserve" -> "init-reserve"
      [] ins.tag = "RefreshReserve" -> "refresh-reserve"
      [] ins.tag = "DepositReserveLiquidity" -> "deposit-reserve-liquidity"
      [] ins.tag = "RedeemReserveCollateral" -> "redeem-reserve-collateral"
      [] ins.tag = "InitObligation" -> "init-obligation"
      [] ins.tag = "RefreshObligation" -> "refresh-reserve"
      [] ins.tag = "DepositObligationCollateral" -> "deposit-obligation-collateral"
      [] ins.tag = "WithdrawObligationCollateral" -> "withdraw-obligation-collateral"
      [] ins.tag = "BorrowObligationLiquidity" -> "borrow-obligation-liquidity"
      [] ins.tag = "RepayObligationLiquidity" -> "repay-obligation-liquidity"
      [] ins.tag = "LiquidateObligation" -> "liquidate-obligation"
      [] ins.tag = "FlashLoan" -> "flash-loan"

function_name(ins) ==
    CASE ins.tag = "InitLendingMarket" -> "init-lending-market"
      [] ins.tag = "SetLendingMarketOwner" -> "set-lending-market-owner"
      [] ins.tag = "InitReserve" -> "init-reserve"
      [] ins.tag = "RefreshReserve" -> "refresh-reserve"
      [] ins.tag = "DepositReserveLiquidity" -> "deposit-reserve-liquidity"
      [] ins.tag = "RedeemReserveCollateral" -> "redeem-reserve-collateral"
      [] ins.tag = "InitObligation" -> "init-obligation"
      [] ins.tag = "RefreshObligation" -> "refresh-obligation"
      [] ins.tag = "DepositObligationCollateral" -> "deposit-obligation-collateral"
      [] ins.tag = "WithdrawObligationCollateral" -> "withdraw-obligation-collateral"
      [] ins.tag = "BorrowObligationLiquidity" -> "borrow-obligation-liquidity"
      [] ins.tag = "RepayObligationLiquidity" -> "repay-obligation-liquidity"
      [] ins.tag = "LiquidateObligation" -> "liquidate-obligation"
      [] ins.tag = "FlashLoan" -> "flash-loan"

\* The properties listed in the declaration order of the fields.
init_reserve_properties_declared(inp, ins) ==
    LET prop(key, value, parent_key) == InstructionProperty(inp, key, value, parent_key)
        config == ins.config
    IN  <<prop("liquidity_amount", u64_to_string(ins.liquidity_amount), ""),
          prop("optimal_utilization_rate", u8_to_string(config.optimal_utilization_rate),
               "config"),
          prop("loan_to_value_ratio", u8_to_string(config.loan_to_value_ratio), "config"),
          prop("liquidation_threshold", u8_to_string(config.liquidation_threshold), "config"),
          prop("min_borrow_rate", u8_to_string(config.min_borrow_rate), "config"),
          prop("optimal_borrow_rate", u8_to_string(config.optimal_borrow_rate), "config"),
          prop("max_borrow_rate", u8_to_string(config.max_borrow_rate), "config"),
          prop("borrow_fee_wad", u64_to_string(config.fees.borrow_fee_wad), "config/fees"),
          prop("flash_loan_fee_wad", u64_to_string(config.fees.flash_loan_fee_wad), "fees"),
          prop("host_fee_percentage", u8_to_string(config.fees.host_fee_percentage),
               "config/fees")>>

\* flash_loan_fee_wad filed under "config/fees" like its siblings.
init_reserve_properties_one_path(inp, ins) ==
    LET prop(key, value, parent_key) == InstructionProperty(inp, key, value, parent_key)
        config == ins.config
    IN  <<prop("liquidity_amount", u64_to_string(ins.liquidity_amount), ""),
          prop("flash_loan_fee_wad", u64_to_string(config.fees.flash_loan_fee_wad),
               "config/fees"),
          prop("borrow_fee_wad", u64_to_string(config.fees.borrow_fee_wad), "config/fees"),
          prop("host_fee_percentage", u8_to_string(config.fees.host_fee_percentage),
               "config/fees"),
          prop("liquidation_threshold", u8_to_string(config.liquidation_threshold), "config"),
          prop("loan_to_value_ratio", u8_to_string(config.loan_to_value_ratio), "config"),
          prop("max_borrow_rate", u8_to_string(config.max_borrow_rate), "config"),
          prop("min_borrow_rate", u8_to_string(config.min_borrow_rate), "config"),
          prop("optimal_borrow_rate", u8_to_string(config.optimal_borrow_rate), "config"),
          prop("optimal_utilization_rate", u8_to_string(config.optimal_utilization_rate),
               "config")>>

init_reserve_properties(inp, ins) ==
    LET liquidity_amount == ins.liquidity_amount
        config == ins.config
    IN  <<InstructionProperty(inp, "liquidity_amount",
                              u64_to_string(liquidity_amount), ""),
          InstructionProperty(inp, "flash_loan_fee_wad",
                              u64_to_string(config.fees.flash_loan_fee_wad), "fees"),
          InstructionProperty(inp, "borrow_fee_wad",
                              u64_to_string(config.fees.borrow_fee_wad), "config/fees"),
          InstructionProperty(inp, "host_fee_percentage",
                              u8_to_string(config.fees.host_fee_percentage), "config/fees"),
          InstructionProperty(inp, "liquidation_threshold",
                              u8_to_string(config.liquidation_threshold), "config"),
          InstructionProperty(inp, "loan_to_value_ratio",
                              u8_to_string(config.loan_to_value_ratio), "config"),
          InstructionProperty(inp, "max_borrow_rate",
                              u8_to_string(config.max_borrow_rate), "config"),
          InstructionProperty(inp, "min_borrow_rate",
                              u8_to_string(config.min_borrow_rate), "config"),
          InstructionProperty(inp, "optimal_borrow_rate",
                              u8_to_string(config.optimal_borrow_rate), "config"),
          InstructionProperty(inp, "optimal_utilization_rate",
                              u8_to_string(config.optimal_utilization_rate), "config")>>

properties(inp, ins) ==
    CASE ins.tag = "InitLendingMarket" ->
            <<InstructionProperty(inp, "owner", pubkey_to_string(ins.owner), ""),
              InstructionProperty(inp, "quote_currency",
                                  pubkey_to_string(ins.quote_currency), "")>>
      [] ins.tag = "SetLendingMarketOwner" ->
            <<InstructionProperty(inp, "new_owner", pubkey_to_string(ins.new_owner), "")>>
      [] ins.tag = "InitReserve" -> init_reserve_properties(inp, ins)
      [] ins.tag = "RefreshReserve" -> <<>>
      [] ins.tag = "DepositReserveLiquidity" ->
            <<InstructionProperty(inp, "liquidity_amount",
                                  u64_to_string(ins.liquidity_amount), "")>>
      [] ins.tag = "RedeemReserveCollateral" ->
            <<InstructionProperty(inp, "collateral_amount",
                                  u64_to_string(ins.collateral_amount), "")>>
      [] ins.tag = "InitObligation" -> <<>>
      [] ins.tag = "RefreshObligation" ->
            \* the arm binds no field: collateral_amount is the free identifier
            <<InstructionProperty(inp, "collateral_amount",
                                  u64_to_string(collateral_amount), "")>>
      [] ins.tag = "DepositObligationCollateral" ->
            <<InstructionProperty(inp, "collateral_amount",
                                  u64_to_string(ins.collateral_amount), "")>>
      [] ins.tag = "WithdrawObligationCollateral" ->
            <<InstructionProperty(inp, "collateral_amount",
                                  u64_to_string(ins.collateral_amount), "")>>
      [] ins.tag = "BorrowObligationLiquidity" ->
            <<InstructionProperty(inp, "liquidity_amount",
                                  u64_to_string(ins.liquidity_amount), "")>>
      [] ins.tag = "RepayObligationLiquidity" ->
            <<InstructionProperty(inp, "liquidity_amount",
                                  u64_to_string(ins.liquidity_amount), "")>>
      [] ins.tag = "LiquidateObligation" ->
            <<InstructionProperty(inp, "liquidity_amount",
                                  u64_to_string(ins.liquidity_amount), "")>>
      [] ins.tag = "FlashLoan" ->
            <<InstructionProperty(inp, "amount", u64_to_string(ins.amount), "")>>

\* The properties collected back to front.
InstructionSet_reversed(inp, ins) ==
    Some([function |-> InstructionFunction(function_name(ins)),
          properties |-> Reverse(properties(inp, ins))])

\* Some(InstructionSet { function, properties }) of the matched arm.
InstructionSet(inp, ins) ==
    Some([function |-> InstructionFunction(function_name(ins)),
          properties |-> properties(inp, ins)])

\* error!("{}", <literal>.to_string()): the rendered message is the literal,
\* kept as the pieces of its text.
error_report ==
    [level |-> "ERROR",
     message |-> <<"[", "processors/programs/native_token_swap", "] ",
                   "FATAL: Unrecognised instruction.">>]

\* The whole function, for one call run on its own.
process_native_token_lending_instruction(inp) ==
    LET unpack_result == unpack(inp.data)
    IN  IF unpack_result.ok THEN InstructionSet(inp, unpack_result.value) ELSE None

-----------------------------------------------------------------------------
\* The inputs the calls are drawn from.

\* The 8 little-endian bytes of n.
RECURSIVE LittleEndian(_, _)
LittleEndian(n, len) ==
    IF len = 0 THEN <<>> ELSE <<n % 256>> \o LittleEndian(n \div 256, len - 1)

U64(n) == LittleEndian(n, 8)
MaxU64 == [i \in 1..8 |-> 255]
Zeros(n) == [i \in 1..n |-> 0]
SystemKey == Zeros(32)
CountingKey == [i \in 1..32 |-> i]
OneKey == Zeros(31) \o <<1>>

Amounts == {U64(500), MaxU64}

\* 0, 2^32 and 2^63.
EdgeAmounts == {U64(0), <<0, 0, 0, 0, 1, 0, 0, 0>>, <<0, 0, 0, 0, 0, 0, 0, 128>>}

ReserveBody(amount, borrow_fee, flash_fee) ==
    amount \o <<80, 50, 5, 55, 0, 4, 30>> \o borrow_fee \o flash_fee \o <<20>>

ValidPayloads ==
    {<<tag>> \o a : tag \in {4, 5, 8, 9, 10, 11, 12, 13}, a \in Amounts}
    \cup {<<3>>, <<6>>, <<7>>, <<3, 9, 9>>, <<4>> \o U64(0) \o <<1>>}
    \cup {<<tag>> \o a : tag \in {4, 13}, a \in EdgeAmounts}
    \cup {<<0>> \o SystemKey \o CountingKey, <<0>> \o CountingKey \o OneKey, Zeros(65),
          <<1>> \o SystemKey, <<1>> \o CountingKey}
    \cup {<<2>> \o ReserveBody(U64(500), U64(1000000), U64(3000000)),
          <<2>> \o ReserveBody(MaxU64, U64(0), MaxU64)}

InvalidPayloads ==
    {<<>>, <<14>>, <<14>> \o Zeros(8), <<255>> \o U64(500),
     <<4, 1, 2>>, <<0>> \o SystemKey, <<1>>, <<2>> \o U64(500)}

Payloads == ValidPayloads \cup InvalidPayloads

Contexts ==
    {[transaction_hash |-> "TX1", instruction_index |-> 2,
      parent_index |-> -1, timestamp |-> 1000],
     [transaction_hash |-> "TX2", instruction_index |-> -1,
      parent_index |-> 0, timestamp |-> 2000]}

Input(ctx, data) ==
    [transaction_hash |-> ctx.transaction_hash,
     instruction_index |-> ctx.instruction_index,
     data |-> data,
     timestamp |-> ctx.timestamp,
     parent_index |-> ctx.parent_index]

Inputs == {Input(ctx, data) : ctx \in Contexts, data \in Payloads}

ConcPayloads ==
    {<<3>>, <<7>>, <<4>> \o U64(500),
     <<2>> \o ReserveBody(U64(500), U64(1000000), U64(3000000)),
     <<14>>, <<4, 1, 2>>}

ConcInputs == {Input(ctx, data) : ctx \in Contexts, data \in ConcPayloads}

\* Values the free identifier `instruction` may stand for.
Instructions ==
    {[tx_instruction_id |-> 2, transaction_hash |-> "TX1", parent_index |-> -1,
      program |-> "LendingbGKPFXCWuBvfkegQfZyiNwAJb9Ss623VQ5DA", timestamp |-> 1000],
     [tx_instruction_id |-> 7, transaction_hash |-> "TX9", parent_index |-> 3,
      program |-> "LendingbGKPFXCWuBvfkegQfZyiNwAJb9Ss623VQ5DA", timestamp |-> 9000]}

-----------------------------------------------------------------------------
\* The state machine.

Tasks == 1..NumTasks

NoInput == Input([transaction_hash |-> "", instruction_index |-> 0,
                  parent_index |-> 0, timestamp |-> 0], <<>>)
NotYet == "not yet"
NoCall == [inp |-> NoInput, result |-> NotYet]

Idle == [pc |-> "idle", inp |-> NoInput, unpack_result |-> NotYet,
         result |-> NotYet, mark |-> 0]

Init ==
    /\ instruction \in Instructions
    /\ collateral_amount \in {U64(0), U64(7)}
    /\ task = [t \in Tasks |-> Idle]
    /\ log = <<>>
    /\ prev = NoCall
    /\ calls = 0

\* The caller invokes the function on task t.
Call(t, inp) ==
    /\ task[t].pc = "idle"
    /\ calls < MaxCalls
    /\ task' = [task EXCEPT ![t] = [pc |-> "unpack", inp |-> inp,
                                    unpack_result |-> NotYet, result |-> NotYet,
                                    mark |-> Len(log)]]
    /\ calls' = calls + 1
    /\ UNCHANGED <<instruction, collateral_amount, log, prev>>

\* let unpack_result = LendingInstruction::unpack(data);
Unpack(t) ==
    /\ task[t].pc = "unpack"
    /\ task' = [task EXCEPT ![t].unpack_result = unpack(task[t].inp.data),
                            ![t].pc = "match"]
    /\ UNCHANGED <<instruction, collateral_amount, log, prev, calls>>

\* if let Ok(lending_instruction) = unpack_result { return match .. }
Match(t) ==
    /\ task[t].pc = "match"
    /\ task[t].unpack_result.ok
    /\ task' = [task EXCEPT
                  ![t].result = InstructionSet(task[t].inp, task[t].unpack_result.value),
                  ![t].pc = "done"]
    /\ UNCHANGED <<instruction, collateral_amount, log, prev, calls>>

\* The failure path returning an InstructionSet with no properties.
Fail_PartialSet(t) ==
    /\ task[t].pc = "match"
    /\ ~task[t].unpack_result.ok
    /\ log' = Append(log, [by |-> t, report |-> error_report])
    /\ task' = [task EXCEPT
                  ![t].result = Some([function |-> InstructionFunction("unknown"),
                                      properties |-> <<>>]),
                  ![t].pc = "done"]
    /\ UNCHANGED <<instruction, collateral_amount, prev, calls>>

\* The failure reported twice (once where it is found, once on return).
Fail_LogsTwice(t) ==
    /\ task[t].pc = "match"
    /\ ~task[t].unpack_result.ok
    /\ log' = log \o <<[by |-> t, report |-> error_report],
                       [by |-> t, report |-> error_report]>>
    /\ task' = [task EXCEPT ![t].result = None, ![t].pc = "done"]
    /\ UNCHANGED <<instruction, collateral_amount, prev, calls>>

\* The failure escaping as a fault that ends the sibling calls in flight.
Fail_AbortsSiblings(t) ==
    /\ task[t].pc = "match"
    /\ ~task[t].unpack_result.ok
    /\ log' = Append(log, [by |-> t, report |-> error_report])
    /\ task' = [u \in Tasks |->
                  IF u = t \/ task[u].pc \in {"unpack", "match"}
                  THEN [task[u] EXCEPT !.result = None, !.pc = "done"]
                  ELSE task[u]]
    /\ UNCHANGED <<instruction, collateral_amount, prev, calls>>

\* error!(..); None
Fail(t) ==
    /\ task[t].pc = "match"
    /\ ~task[t].unpack_result.ok
    /\ log' = Append(log, [by |-> t, report |-> error_report])
    /\ task' = [task EXCEPT ![t].result = None, ![t].pc = "done"]
    /\ UNCHANGED <<instruction, collateral_amount, prev, calls>>

\* The caller takes the result; the task is free for the next call.
Return(t) ==
    /\ task[t].pc = "done"
    /\ prev' = [inp |-> task[t].inp, result |-> task[t].result]
    /\ task' = [task EXCEPT ![t] = Idle]
    /\ UNCHANGED <<instruction, collateral_amount, log, calls>>

\* One caller, one call at a time, every payload.
Next ==
    \/ \E inp \in Inputs : Call(1, inp)
    \/ Unpack(1)
    \/ Match(1)
    \/ Fail(1)
    \/ Return(1)

Spec == Init /\ [][Next]_vars

\* Several callers at once, each call running to its result.
ConcNext ==
    \E t \in Tasks :
        \/ \E inp \in ConcInputs : Call(t, inp)
        \/ Unpack(t)
        \/ Match(t)
        \/ Fail(t)

SpecConc == Init /\ [][ConcNext]_vars

-----------------------------------------------------------------------------
\* Vocabulary of the properties below.

\* The 14 variants of LendingInstruction, in discriminant order (0..13).
VariantSeq ==
    <<"InitLendingMarket",
      "SetLendingMarketOwner",
      "InitReserve",
      "RefreshReserve",
      "DepositReserveLiquidity",
      "RedeemReserveCollateral",
      "InitObligation",
      "RefreshObligation",
      "DepositObligationCollateral",
      "WithdrawObligationCollateral",
      "BorrowObligationLiquidity",
      "RepayObligationLiquidity",
      "LiquidateObligation",
      "FlashLoan">>

Variants == {VariantSeq[i] : i \in 1..Len(VariantSeq)}

Discriminant(v) == (CHOOSE i \in 1..Len(VariantSeq) : VariantSeq[i] = v) - 1

\* Bytes of the fields that follow the tag.
BodyLen(v) ==
    CASE v = "InitLendingMarket" -> 64
      [] v = "SetLendingMarketOwner" -> 32
      [] v = "InitReserve" -> 32
      [] v \in {"RefreshReserve", "InitObligation", "RefreshObligation"} -> 0
      [] OTHER -> 8

ValidlyEncoded(data, v) ==
    /\ data # <<>>
    /\ Head(data) = Discriminant(v)
    /\ Len(data) - 1 >= BodyLen(v)

UnknownTag(data) == data # <<>> /\ Head(data) \notin 0..13

Done(t) == task[t].pc = "done"
Returned(t) == Done(t) /\ task[t].result # None
Set(t) == task[t].result[1]
Decoded(t) == unpack(task[t].inp.data)

\* <<key, parent_key>> of each property, in order.
KeyPairs(props) == [i \in 1..Len(props) |-> <<props[i].key, props[i].parent_key>>]

\* Reports emitted by the call task t is running.
ReportsBy(t) == {i \in (task[t].mark + 1)..Len(log) : log[i].by = t}

-----------------------------------------------------------------------------
\* The per-variant mapping table: function name, then <<key, parent_key>>
\* of each emitted property.
TableName(v) ==
    CASE v = "InitLendingMarket" -> "init-lending-market"
      [] v = "SetLendingMarketOwner" -> "set-lending-market-owner"
      [] v = "InitReserve" -> "init-reserve"
      [] v = "RefreshReserve" -> "refresh-reserve"
      [] v = "DepositReserveLiquidity" -> "deposit-reserve-liquidity"
      [] v = "RedeemReserveCollateral" -> "redeem-reserve-collateral"
      [] v = "InitObligation" -> "init-obligation"
      [] v = "RefreshObligation" -> "refresh-obligation"
      [] v = "DepositObligationCollateral" -> "deposit-obligation-collateral"
      [] v = "WithdrawObligationCollateral" -> "withdraw-obligation-collateral"
      [] v = "BorrowObligationLiquidity" -> "borrow-obligation-liquidity"
      [] v = "RepayObligationLiquidity" -> "repay-obligation-liquidity"
      [] v = "LiquidateObligation" -> "liquidate-obligation"
      [] v = "FlashLoan" -> "flash-loan"

TableProperties(v) ==
    CASE v = "InitLendingMarket" -> << <<"owner", "">>, <<"quote_currency", "">> >>
      [] v = "SetLendingMarketOwner" -> << <<"new_owner", "">> >>
      [] v = "InitReserve" ->
            << <<"liquidity_amount", "">>,
               <<"flash_loan_fee_wad", "fees">>,
               <<"borrow_fee_wad", "config/fees">>,
               <<"host_fee_percentage", "config/fees">>,
               <<"liquidation_threshold", "config">>,
               <<"loan_to_value_ratio", "config">>,
               <<"max_borrow_rate", "config">>,
               <<"min_borrow_rate", "config">>,
               <<"optimal_borrow_rate", "config">>,
               <<"optimal_utilization_rate", "config">> >>
      [] v \in {"RefreshReserve", "InitObligation"} -> <<>>
      [] v \in {"DepositReserveLiquidity", "BorrowObligationLiquidity",
                "RepayObligationLiquidity", "LiquidateObligation"} ->
            << <<"liquidity_amount", "">> >>
      [] v \in {"RedeemReserveCollateral", "RefreshObligation",
                "DepositObligationCollateral", "WithdrawObligationCollateral"} ->
            << <<"collateral_amount", "">> >>
      [] v = "FlashLoan" -> << <<"amount", "">> >>

\* C1: a call on a validly encoded payload of any of the 14 variants returns
\* an InstructionSet whose function_name is the table's name for the variant
\* and whose properties' <<key, parent_key>> pairs are, in order, the table's.
C1_MatchesTable ==
    \A t \in Tasks : \A v \in Variants :
        (Done(t) /\ ValidlyEncoded(task[t].inp.data, v)) =>
            /\ task[t].result # None
            /\ Len(task[t].result) = 1
            /\ Set(t).function.function_name = TableName(v)
            /\ KeyPairs(Set(t).properties) = TableProperties(v)

\* A call on an InitLendingMarket payload has returned its two properties.
C1_Witness ==
    \E t \in Tasks :
        /\ Done(t)
        /\ ValidlyEncoded(task[t].inp.data, "InitLendingMarket")
        /\ Returned(t)
        /\ Len(Set(t).properties) = 2

-----------------------------------------------------------------------------
\* Number of records a result holds.
RecordCount(result) ==
    IF result = None THEN 0 ELSE 1 + Len(result[1].properties)

\* C2: the call returns None exactly when LendingInstruction::unpack fails
\* and Some(InstructionSet) otherwise; a failed decode yields no record.
C2_NoneIffUnpackFails ==
    \A t \in Tasks :
        Done(t) =>
            /\ (task[t].result = None) <=> ~Decoded(t).ok
            /\ Decoded(t).ok =>
                  /\ Len(task[t].result) = 1
                  /\ DOMAIN Set(t) = {"function", "properties"}
            /\ ~Decoded(t).ok => RecordCount(task[t].result) = 0

\* A call on a truncated DepositReserveLiquidity payload has returned None.
C2_Witness ==
    \E t \in Tasks :
        /\ Done(t)
        /\ task[t].inp.data = <<4, 1, 2>>
        /\ ~Decoded(t).ok
        /\ task[t].result = None

\* A record carries the context passed to the call.
EchoesContext(rec, inp) ==
    /\ rec.transaction_hash = inp.transaction_hash
    /\ rec.tx_instruction_id = inp.instruction_index
    /\ rec.parent_index = inp.parent_index
    /\ rec.timestamp = inp.timestamp

\* C3: every record of a returned InstructionSet, the function record and
\* each property record, carries the transaction_hash, instruction index,
\* parent_index and timestamp passed to the call.
C3_EchoesContext ==
    \A t \in Tasks :
        Returned(t) =>
            /\ EchoesContext(Set(t).function, task[t].inp)
            /\ \A i \in 1..Len(Set(t).properties) :
                  EchoesContext(Set(t).properties[i], task[t].inp)

\* The parent_key of each InitReserve property, by key.
InitReserveParentKeys(props) ==
    \A i \in 1..Len(props) :
        props[i].parent_key =
            CASE props[i].key = "liquidity_amount" -> ""
              [] props[i].key = "flash_loan_fee_wad" -> "fees"
              [] props[i].key \in {"borrow_fee_wad", "host_fee_percentage"} -> "config/fees"
              [] OTHER -> "config"

\* C4, as stated: an InitReserve payload yields exactly 9 properties, with
\* parent_key "" for liquidity_amount, "fees" for flash_loan_fee_wad,
\* "config/fees" for borrow_fee_wad and host_fee_percentage, and "config"
\* for the remaining configuration fields.
C4_NineEntries ==
    \A t \in Tasks :
        (Returned(t) /\ ValidlyEncoded(task[t].inp.data, "InitReserve")) =>
            /\ Len(Set(t).properties) = 9
            /\ InitReserveParentKeys(Set(t).properties)

\* C4, amended: an InitReserve payload yields exactly 10 properties, one per
\* key, with parent_key "" for liquidity_amount, "fees" for
\* flash_loan_fee_wad, "config/fees" for borrow_fee_wad and
\* host_fee_percentage, and "config" for the six remaining configuration
\* fields.
C4_TenEntries ==
    \A t \in Tasks :
        (Done(t) /\ ValidlyEncoded(task[t].inp.data, "InitReserve")) =>
            /\ Returned(t)
            /\ Len(Set(t).properties) = 10
            /\ Cardinality({Set(t).properties[i].key : i \in 1..10}) = 10
            /\ InitReserveParentKeys(Set(t).properties)
            /\ Cardinality({i \in 1..10 : Set(t).properties[i].parent_key = "config"}) = 6
            /\ \E i, j, k, l \in 1..10 :
                  /\ Set(t).properties[i].key = "liquidity_amount"
                  /\ Set(t).properties[j].key = "flash_loan_fee_wad"
                  /\ Set(t).properties[k].key = "borrow_fee_wad"
                  /\ Set(t).properties[l].key = "host_fee_percentage"

\* A call on an InitReserve payload has returned, flash_loan_fee_wad under
\* "fees" and borrow_fee_wad under "config/fees".
C4_Witness ==
    \E t \in Tasks :
        /\ Returned(t)
        /\ ValidlyEncoded(task[t].inp.data, "InitReserve")
        /\ <<"flash_loan_fee_wad", "fees">> \in
              {KeyPairs(Set(t).properties)[i] : i \in 1..Len(Set(t).properties)}
        /\ <<"borrow_fee_wad", "config/fees">> \in
              {KeyPairs(Set(t).properties)[i] : i \in 1..Len(Set(t).properties)}

\* C5: a call on a buffer whose leading tag is none of the 14 discriminants
\* never enters a match arm, returns None and has emitted exactly one report
\* when it returns (and none before).
C5_UnknownTagYieldsNone ==
    \A t \in Tasks :
        UnknownTag(task[t].inp.data) =>
            /\ task[t].pc \in {"unpack", "match", "done"}
            /\ task[t].pc = "match" => ~task[t].unpack_result.ok
            /\ task[t].pc # "done" => ReportsBy(t) = {}
            /\ Done(t) => task[t].result = None /\ Cardinality(ReportsBy(t)) = 1

\* A call on <<14, 0, .., 0>> has returned None with its one report.
C5_Witness ==
    \E t \in Tasks :
        /\ Done(t)
        /\ task[t].inp.data = <<14>> \o Zeros(8)
        /\ task[t].result = None
        /\ Cardinality(ReportsBy(t)) = 1

-----------------------------------------------------------------------------
\* i16::to_string.
i16_to_string(n) ==
    LET abs == IF n < 0 THEN 0 - n ELSE n
        digits == ToBase(<<abs \div 256, abs % 256>>, <<>>, 10)
        text == IF digits = <<>> THEN "0" ELSE Render(digits, DecimalChars)
    IN  IF n < 0 THEN "-" \o text ELSE text

\* The text of a report holds s.
Contains(report, s) == \E k \in 1..Len(report.message) : report.message[k] = s

\* Names under which a report may identify the program of the instruction.
ProgramIdentities ==
    {instruction.program, "native_token_lending", "processors/programs/native_token_lending"}

\* C6: the report of a failed decode holds the program identity, the
\* transaction hash and the instruction index of the failing call.
C6_ReportIdentifiesCall ==
    \A t \in Tasks :
        Done(t) =>
            \A i \in ReportsBy(t) :
                /\ \E p \in ProgramIdentities : Contains(log[i].report, p)
                /\ Contains(log[i].report, task[t].inp.transaction_hash)
                /\ Contains(log[i].report, i16_to_string(task[t].inp.instruction_index))

\* C7: whatever the other calls do, a call that has returned holds the result
\* the function yields for its inputs when run on its own, and the calls
\* still running hold their own inputs' decode.
C7_CallsIndependent ==
    \A t \in Tasks :
        /\ Done(t) => task[t].result = process_native_token_lending_instruction(task[t].inp)
        /\ task[t].pc = "match" => task[t].unpack_result = Decoded(t)
        /\ task[t].pc \in {"unpack", "match"} => task[t].result = NotYet

\* A call that started after another call's decode failure was reported has
\* returned an InstructionSet.
C7_Witness ==
    \E t, u \in Tasks :
        /\ t # u
        /\ Done(u) /\ task[u].result = None /\ ReportsBy(u) # {}
        /\ Returned(t)
        /\ task[t].mark >= 1

\* Both None, or equal in the function record and in every property record.
SameOutput(a, b) ==
    \/ a = None /\ b = None
    \/ /\ a # None /\ b # None
       /\ a[1].function = b[1].function
       /\ Len(a[1].properties) = Len(b[1].properties)
       /\ \A i \in 1..Len(a[1].properties) : a[1].properties[i] = b[1].properties[i]

\* C8: a call on the same (context, bytes) as the call before it returns the
\* same result: both None, or InstructionSets equal in the function record
\* and in every property record, position by position.
C8_Idempotent ==
    \A t \in Tasks :
        (Done(t) /\ prev # NoCall /\ prev.inp = task[t].inp) =>
            SameOutput(prev.result, task[t].result)

\* The same InitReserve call has been made twice and has returned twice.
C8_Witness ==
    \E t \in Tasks :
        /\ Returned(t)
        /\ prev # NoCall
        /\ prev.inp = task[t].inp
        /\ ValidlyEncoded(task[t].inp.data, "InitReserve")

-----------------------------------------------------------------------------
\* Kebab case of a variant's tag, letter by letter.

UpperChars == <<"A", "B", "C", "D", "E", "F", "G", "H", "I", "J", "K", "L", "M",
                "N", "O", "P", "Q", "R", "S", "T", "U", "V", "W", "X", "Y", "Z">>
LowerChars == <<"a", "b", "c", "d", "e", "f", "g", "h", "i", "j", "k", "l", "m",
                "n", "o", "p", "q", "r", "s", "t", "u", "v", "w", "x", "y", "z">>

IsUpper(c) == \E k \in 1..Len(UpperChars) : UpperChars[k] = c
ToLower(c) == LowerChars[CHOOSE k \in 1..Len(UpperChars) : UpperChars[k] = c]

\* The letters of each variant's tag.
VariantChars ==
    ("InitLendingMarket" :> <<"I", "n", "i", "t", "L", "e", "n", "d", "i", "n", "g", "M", "a", "r", "k", "e", "t">>) @@
    ("SetLendingMarketOwner" :> <<"S", "e", "t", "L", "e", "n", "d", "i", "n", "g", "M", "a", "r", "k", "e", "t", "O", "w", "n", "e", "r">>) @@
    ("InitReserve" :> <<"I", "n", "i", "t", "R", "e", "s", "e", "r", "v", "e">>) @@
    ("RefreshReserve" :> <<"R", "e", "f", "r", "e", "s", "h", "R", "e", "s", "e", "r", "v", "e">>) @@
    ("DepositReserveLiquidity" :> <<"D", "e", "p", "o", "s", "i", "t", "R", "e", "s", "e", "r", "v", "e", "L", "i", "q", "u", "i", "d", "i", "t", "y">>) @@
    ("RedeemReserveCollateral" :> <<"R", "e", "d", "e", "e", "m", "R", "e", "s", "e", "r", "v", "e", "C", "o", "l", "l", "a", "t", "e", "r", "a", "l">>) @@
    ("InitObligation" :> <<"I", "n", "i", "t", "O", "b", "l", "i", "g", "a", "t", "i", "o", "n">>) @@
    ("RefreshObligation" :> <<"R", "e", "f", "r", "e", "s", "h", "O", "b", "l", "i", "g", "a", "t", "i", "o", "n">>) @@
    ("DepositObligationCollateral" :> <<"D", "e", "p", "o", "s", "i", "t", "O", "b", "l", "i", "g", "a", "t", "i", "o", "n", "C", "o", "l", "l", "a", "t", "e", "r", "a", "l">>) @@
    ("WithdrawObligationCollateral" :> <<"W", "i", "t", "h", "d", "r", "a", "w", "O", "b", "l", "i", "g", "a", "t", "i", "o", "n", "C", "o", "l", "l", "a", "t", "e", "r", "a", "l">>) @@
    ("BorrowObligationLiquidity" :> <<"B", "o", "r", "r", "o", "w", "O", "b", "l", "i", "g", "a", "t", "i", "o", "n", "L", "i", "q", "u", "i", "d", "i", "t", "y">>) @@
    ("RepayObligationLiquidity" :> <<"R", "e", "p", "a", "y", "O", "b", "l", "i", "g", "a", "t", "i", "o", "n", "L", "i", "q", "u", "i", "d", "i", "t", "y">>) @@
    ("LiquidateObligation" :> <<"L", "i", "q", "u", "i", "d", "a", "t", "e", "O", "b", "l", "i", "g", "a", "t", "i", "o", "n">>) @@
    ("FlashLoan" :> <<"F", "l", "a", "s", "h", "L", "o", "a", "n">>)

RECURSIVE Concat(_)
Concat(chars) == IF chars = <<>> THEN "" ELSE Head(chars) \o Concat(Tail(chars))

RECURSIVE KebabFrom(_, _)
KebabFrom(chars, first) ==
    IF chars = <<>> THEN ""
    ELSE LET c == Head(chars)
         IN  (IF IsUpper(c)
              THEN (IF first THEN "" ELSE "-") \o ToLower(c)
              ELSE c) \o KebabFrom(Tail(chars), FALSE)

KebabCase(v) == KebabFrom(VariantChars[v], TRUE)

\* C9: every decoded variant yields one InstructionFunction whose
\* function_name is the kebab-case form of the variant's own tag (one of the
\* 14 variants), and no other variant is given that name.
C9_KebabNames ==
    \A t \in Tasks :
        (Done(t) /\ Decoded(t).ok) =>
            LET tag == Decoded(t).value.tag
            IN  /\ Returned(t)
                /\ Len(task[t].result) = 1
                /\ tag \in Variants
                /\ Concat(VariantChars[tag]) = tag
                /\ Set(t).function.function_name = KebabCase(tag)
                /\ \A w \in Variants \ {tag} :
                      function_name([tag |-> w]) # Set(t).function.function_name

\* A WithdrawObligationCollateral call has returned its function record.
C9_Witness ==
    \E t \in Tasks :
        /\ Returned(t)
        /\ Decoded(t).ok
        /\ Decoded(t).value.tag = "WithdrawObligationCollateral"
        /\ Set(t).function.function_name = "withdraw-obligation-collateral"

-----------------------------------------------------------------------------
\* The nesting path of the field named key in a decoded payload.
TopFields(ins) == DOMAIN ins \ {"tag"}
ConfigFields(ins) ==
    IF "config" \in DOMAIN ins THEN DOMAIN ins.config \ {"fees"} ELSE {}
FeesFields(ins) ==
    IF "config" \in DOMAIN ins THEN DOMAIN ins.config.fees ELSE {}
HasField(ins, key) == key \in TopFields(ins) \cup ConfigFields(ins) \cup FeesFields(ins)
PathOf(ins, key) ==
    CASE key \in TopFields(ins) -> ""
      [] key \in ConfigFields(ins) -> "config"
      [] key \in FeesFields(ins) -> "config/fees"

\* C10: the parent_key of every property that renders a field of the payload
\* is that field's nesting path: "" at the top level, "config" inside config,
\* "config/fees" inside the fees of config.
C10_ParentKeyIsPath ==
    \A t \in Tasks :
        Returned(t) =>
            \A i \in 1..Len(Set(t).properties) :
                LET p == Set(t).properties[i]
                IN  HasField(Decoded(t).value, p.key) =>
                        p.parent_key = PathOf(Decoded(t).value, p.key)

-----------------------------------------------------------------------------
\* C11: a variant whose payload has no fields (RefreshReserve,
\* InitObligation, RefreshObligation) emits no properties; a RefreshObligation
\* payload gives function_name "refresh-obligation" and an empty list.
C11_NoFieldsNoProperties ==
    \A t \in Tasks :
        (Done(t) /\ Decoded(t).ok /\ TopFields(Decoded(t).value) = {}) =>
            /\ Returned(t)
            /\ Set(t).properties = <<>>
            /\ Decoded(t).value.tag = "RefreshObligation" =>
                  Set(t).function.function_name = "refresh-obligation"

-----------------------------------------------------------------------------
\* The fields of each variant's payload in declaration order, a nested
\* aggregate's fields at the place where the aggregate is declared
\* (ReserveConfig declares fees last; ReserveFees declares borrow_fee_wad,
\* flash_loan_fee_wad, host_fee_percentage).
DeclaredFields(tag) ==
    CASE tag = "InitLendingMarket" -> <<"owner", "quote_currency">>
      [] tag = "SetLendingMarketOwner" -> <<"new_owner">>
      [] tag = "InitReserve" ->
            <<"liquidity_amount",
              "optimal_utilization_rate", "loan_to_value_ratio", "liquidation_bonus",
              "liquidation_threshold", "min_borrow_rate", "optimal_borrow_rate",
              "max_borrow_rate",
              "borrow_fee_wad", "flash_loan_fee_wad", "host_fee_percentage">>
      [] tag \in {"RefreshReserve", "InitObligation", "RefreshObligation"} -> <<>>
      [] tag \in {"DepositReserveLiquidity", "BorrowObligationLiquidity",
                  "RepayObligationLiquidity", "LiquidateObligation"} ->
            <<"liquidity_amount">>
      [] tag \in {"RedeemReserveCollateral", "DepositObligationCollateral",
                  "WithdrawObligationCollateral"} ->
            <<"collateral_amount">>
      [] tag = "FlashLoan" -> <<"amount">>

PositionIn(seq, x) == CHOOSE k \in 1..Len(seq) : seq[k] = x

Keys(props) == [i \in 1..Len(props) |-> props[i].key]

\* C12, as stated: the properties that render fields of the payload are in
\* the declaration order of those fields (for InitReserve liquidity_amount,
\* then the config fields as declared, the fees fields where fees is
\* declared; for InitLendingMarket owner before quote_currency).
C12_DeclarationOrder ==
    \A t \in Tasks :
        Returned(t) =>
            LET ins == Decoded(t).value
                keys == Keys(Set(t).properties)
                declared == DeclaredFields(ins.tag)
            IN  \A i, j \in 1..Len(keys) :
                    (i < j /\ HasField(ins, keys[i]) /\ HasField(ins, keys[j])) =>
                        PositionIn(declared, keys[i]) < PositionIn(declared, keys[j])

\* The call before returned an InstructionSet.
PrevReturned == prev # NoCall /\ prev.result # None

\* The order in which the InitReserve arm lists its properties.
InitReserveArmOrder ==
    <<"liquidity_amount",
      "flash_loan_fee_wad", "borrow_fee_wad", "host_fee_percentage",
      "liquidation_threshold", "loan_to_value_ratio", "max_borrow_rate",
      "min_borrow_rate", "optimal_borrow_rate", "optimal_utilization_rate">>

\* C12, amended: the properties are in the fixed order in which the
\* variant's match arm lists them, the same for every payload of the variant
\* whatever the values: for InitReserve liquidity_amount, then
\* flash_loan_fee_wad, borrow_fee_wad, host_fee_percentage, then
\* liquidation_threshold, loan_to_value_ratio, max_borrow_rate,
\* min_borrow_rate, optimal_borrow_rate, optimal_utilization_rate; for
\* InitLendingMarket owner before quote_currency.
C12_ArmOrder ==
    \A t \in Tasks :
        (Done(t) /\ Decoded(t).ok) =>
            LET ins == Decoded(t).value
                keys == Keys(Set(t).properties)
            IN  /\ ins.tag = "InitReserve" => keys = InitReserveArmOrder
                /\ ins.tag = "InitLendingMarket" => keys = <<"owner", "quote_currency">>
                /\ (PrevReturned
                    /\ unpack(prev.inp.data).value.tag = ins.tag) =>
                        Keys(prev.result[1].properties) = keys

\* Two InitReserve calls with different payloads have returned one after the
\* other, flash_loan_fee_wad second in the list although declared after
\* borrow_fee_wad.
C12_Witness ==
    \E t \in Tasks :
        /\ Returned(t)
        /\ Decoded(t).value.tag = "InitReserve"
        /\ PrevReturned
        /\ unpack(prev.inp.data).value.tag = "InitReserve"
        /\ prev.inp.data # task[t].inp.data
        /\ Set(t).properties[2].key = "flash_loan_fee_wad"
        /\ Set(t).properties[3].key = "borrow_fee_wad"

-----------------------------------------------------------------------------
\* The variants that carry a single integer amount, and the key of its
\* property.
AmountVariants ==
    {"DepositReserveLiquidity", "RedeemReserveCollateral",
     "DepositObligationCollateral", "WithdrawObligationCollateral",
     "BorrowObligationLiquidity", "RepayObligationLiquidity",
     "LiquidateObligation", "FlashLoan"}

AmountKey(tag) ==
    CASE tag \in {"DepositReserveLiquidity", "BorrowObligationLiquidity",
                  "RepayObligationLiquidity", "LiquidateObligation"} -> "liquidity_amount"
      [] tag \in {"RedeemReserveCollateral", "DepositObligationCollateral",
                  "WithdrawObligationCollateral"} -> "collateral_amount"
      [] tag = "FlashLoan" -> "amount"

AmountOf(ins) == ins[AmountKey(ins.tag)]

\* Amounts with their decimal text.
KnownDecimals ==
    {<<U64(0), "0">>,
     <<U64(500), "500">>,
     <<<<0, 0, 0, 0, 1, 0, 0, 0>>, "4294967296">>,
     <<<<0, 0, 0, 0, 0, 0, 0, 128>>, "9223372036854775808">>,
     <<MaxU64, "18446744073709551615">>}

\* The little-endian bytes of the number with the given decimal digits
\* (little-endian digits), and a byte string without its high zero bytes.
RECURSIVE FromDecimal(_)
FromDecimal(digits) ==
    IF digits = <<>> THEN <<>>
    ELSE MulAdd(FromDecimal(Tail(digits)), 10, Head(digits), 256)

RECURSIVE StripHighZeros(_)
StripHighZeros(le) ==
    IF le = <<>> \/ le[Len(le)] # 0 THEN le
    ELSE StripHighZeros(SubSeq(le, 1, Len(le) - 1))

\* C13: a call on a single-amount variant returns one property, with the
\* variant's key and parent_key "", whose value is the decimal text of the
\* amount: the text of digits that denote exactly that amount, without
\* leading zero, so that the amount is recovered from it and another amount
\* gives another value (500 gives "500", u64::MAX "18446744073709551615").
C13_DecimalAmount ==
    \A t \in Tasks :
        (Done(t) /\ Decoded(t).ok /\ Decoded(t).value.tag \in AmountVariants) =>
            LET ins == Decoded(t).value
                amount == AmountOf(ins)
                digits == ToBase(Reverse(amount), <<>>, 10)
            IN  /\ Returned(t)
                /\ Len(Set(t).properties) = 1
                /\ Set(t).properties[1].key = AmountKey(ins.tag)
                /\ Set(t).properties[1].parent_key = ""
                /\ \A k \in 1..Len(digits) : digits[k] \in 0..9
                /\ Len(digits) <= 20
                /\ digits # <<>> => digits[Len(digits)] # 0
                /\ FromDecimal(digits) = StripHighZeros(amount)
                /\ Set(t).properties[1].value =
                      (IF digits = <<>> THEN "0" ELSE Render(digits, DecimalChars))
                /\ \A k \in KnownDecimals :
                      (k[1] = amount) <=> (k[2] = Set(t).properties[1].value)
                /\ (PrevReturned
                    /\ unpack(prev.inp.data).value.tag \in AmountVariants
                    /\ AmountOf(unpack(prev.inp.data).value) # amount) =>
                        prev.result[1].properties[1].value # Set(t).properties[1].value

\* DepositReserveLiquidity{500} in the context {"TX1", 2, -1} has returned
\* key "liquidity_amount", value "500", parent_key "", after a FlashLoan of
\* u64::MAX.
C13_Witness ==
    \E t \in Tasks :
        /\ Returned(t)
        /\ task[t].inp.data = <<4>> \o U64(500)
        /\ task[t].inp.transaction_hash = "TX1"
        /\ task[t].inp.instruction_index = 2
        /\ task[t].inp.parent_index = -1
        /\ Set(t).function.function_name = "deposit-reserve-liquidity"
        /\ Len(Set(t).properties) = 1
        /\ Set(t).properties[1].key = "liquidity_amount"
        /\ Set(t).properties[1].value = "500"
        /\ Set(t).properties[1].parent_key = ""
        /\ PrevReturned
        /\ prev.inp.data = <<13>> \o MaxU64
        /\ prev.result[1].properties[1].value = "18446744073709551615"

====
